---- MODULE Spec2Model ----
(***************************************************************************)
(* Model of the job system of src/server.ts: the in-memory job registry,   *)
(* the three HTTP handlers and the background generation pipeline, as they *)
(* run on the single-threaded event loop.  One action is one turn of the   *)
(* event loop (a handler, a timer callback, or the continuation of a       *)
(* pipeline after one of its awaits).  ClientSpec is the polling client of *)
(* src/App.tsx, with the server's answers to its fetches as inputs.        *)
(***************************************************************************)
EXTENDS Integers, Sequences, FiniteSets, TLC

\* ------------------------------------------------------------------ bounds
\* Number of POST /api/generate requests (pipeline tasks) in a behaviour.
MaxTasks == 2
\* Number of deletion timers that may be pending at once.
MaxTimers == 2

\* Values Math.random().toString(36).substring(7) may produce: nothing in
\* the generator excludes a value that is already a key of the registry.
Ids == {"a", "b"}
Tasks == 1..MaxTasks
\* Values Date.now() may return: the wall clock gives no order between two
\* readings (it may stand still or be set back).
Times == {0, 1}

\* ------------------------------------------------------------- job fields
\* An optional field (result?, error?) that was never assigned.
Unset == "<unset>"

\* The message of each progress checkpoint (translated from the source).
MsgInit == "Initializing project..."
Msg5 == "Building the request structure..."
Msg10 == "Consulting the AI (writing the text)..."
Msg45 == "Processing the network's answer..."
Msg55 == "Converting to the academic format..."
Msg70 == "Preparing to print the PDF..."
Msg80 == "Rendering the document..."
Msg90 == "Final assembly of the file..."
MsgDone == "Done!"
MsgError == "An error occurred during generation"

\* Messages of the errors thrown by the pipeline itself.
KeyMissing == "OPENROUTER_API_KEY is not defined"
EmptyResponse == "Empty response from AI"
\* Messages of the errors a collaborator call may throw ("" is an Error that
\* carries no message).
Thrown == {"", "timeout"}

\* response.data.choices[0].message.content: falsy ("") or generated text.
Contents == {"", "markdown"}

\* The Buffer made of the rendered PDF.
Artifact == "pdf"

VARIABLES
    jobs,       \* the Map jobs: a function from the stored ids to Job records
    pc,         \* pc[t]: the await at which pipeline task t is suspended
    taskId,     \* taskId[t]: the jobId task t was started with
    browser,    \* browser[t]: the rendering session of task t
    started,    \* number of pipeline tasks started so far
    timers,     \* pending setTimeout(() => jobs.delete(id), 60000), in order
    apiKey,     \* whether process.env.OPENROUTER_API_KEY is defined
    resp,       \* the latest response to a GET request
    generated,  \* generated[t]: the response to the POST that started task t
    \* ---- the polling client (src/App.tsx)
    status,         \* the GenerationStatus shown
    progress,       \* the progress shown
    statusMessage,  \* the message shown
    pdfBlobUrl,     \* the object URL of the downloaded file, or Unset (null)
    errorMsg,       \* the error text shown
    pollInterval,   \* pollInterval.current: a timer handle, 0 for null
    intervals,      \* the handles of the intervals that are not cleared
    handles,        \* number of setInterval calls so far (the handles issued)
    jobOf,          \* jobOf[h]: the jobId in the closure of interval h
    posts,          \* number of POST /api/generate fetches in flight
    polls,          \* polls[h]: status fetches of interval h in flight
    downloads,      \* downloads[h]: download fetches in flight for interval h's job
    issued,         \* issued[h]: download requests sent for interval h's job
    mounted,        \* whether the component is mounted
    settled         \* the latest status fetch that settled: its interval and reply

server == <<jobs, pc, taskId, browser, started, timers, apiKey, resp, generated>>
client == <<status, progress, statusMessage, pdfBlobUrl, errorMsg, pollInterval,
            intervals, handles, jobOf, posts, polls, downloads, issued, mounted,
            settled>>
vars == <<server, client>>

\* No GET request was answered yet.
NoResp == [op |-> "none"]

\* new Map<string, Job>()
EmptyMap == [k \in {} |-> Unset]

\* ------------------------------------------------------------ the registry
\* jobs.set(id, job)
MapSet(js, id, job) == [k \in DOMAIN js \cup {id} |-> IF k = id THEN job ELSE js[k]]

\* jobs.delete(id)
MapDelete(js, id) == [k \in DOMAIN js \ {id} |-> js[k]]

\* The record POST /api/generate stores.
NewJob(id, now) ==
    [id |-> id, status |-> "processing", progress |-> 0, message |-> MsgInit,
     result |-> Unset, error |-> Unset, lastUpdated |-> now]

\* Object.assign(job, updates): an update that does not refresh lastUpdated.
AssignKeepStamp(job, updates, now) ==
    [f \in DOMAIN job |-> IF f \in DOMAIN updates THEN updates[f] ELSE job[f]]

\* Object.assign(job, { ...updates, lastUpdated: Date.now() })
Assign(job, updates, now) ==
    [f \in DOMAIN job |->
        IF f = "lastUpdated" THEN now
        ELSE IF f \in DOMAIN updates THEN updates[f] ELSE job[f]]

\* An update that is merged into every stored record.
updateJobEvery(js, id, updates, now) ==
    [k \in DOMAIN js |-> Assign(js[k], updates, now)]

\* updateJob(id, updates) applied to the registry js.
updateJob(js, id, updates, now) ==
    IF id \notin DOMAIN js THEN js
    ELSE [js EXCEPT ![id] = Assign(@, updates, now)]

\* The catch block of generateProjectBackground for a thrown message m.
ErrorMessage(m) == IF m = "" THEN "Server Error" ELSE m

Catch(js, id, m, now) ==
    updateJob(js, id, [status |-> "error", error |-> ErrorMessage(m), message |-> MsgError], now)

Checkpoint(js, id, p, msg, now) ==
    updateJob(js, id, [progress |-> p, message |-> msg], now)

\* --------------------------------------------------------------- scheduling
\* A continuation queued as a microtask (the await of the value returned by
\* marked.parse) runs before the event loop takes any other task.
MicrotaskPending == \E t \in Tasks : pc[t] = "parsed"

\* ------------------------------------------------------------------ client
\* Number of submissions whose POST may be answered with a jobId.
MaxSubmits == 2
\* Number of status fetches of one interval that may be in flight at once.
MaxPolls == 2

\* The handles setInterval returns (0 stands for the null of the ref).
Handles == 1..MaxSubmits

\* Texts the client shows (translated from the source).
ClientMsgInit == "Initialization..."
MsgDownloading == "Downloading the file..."
PollErrorDefault == "Generation error"
DownloadFailed == "File download error"
SubmitErrorDefault == "Something went wrong. Make sure the server is running."
\* Messages of the errors handleSubmit throws or fetch rejects with ("" is an
\* error without message: errData.error undefined).
SubmitErrors == {"", "Generation start error", "Invalid response from the server"}

\* What a fetch of /api/status/<jobId> may settle with: a rejection, a
\* response that is not ok, a body that is not JSON, or the JSON of a job.
StatusReplies ==
    {[kind |-> "threw"], [kind |-> "notOk"], [kind |-> "badJson"]}
    \cup {[kind |-> "data", status |-> "processing", progress |-> p[1], message |-> p[2]] :
            p \in {<<10, Msg10>>, <<70, Msg70>>}}
    \cup {[kind |-> "data", status |-> "completed", progress |-> 100, message |-> MsgDone]}
    \cup {[kind |-> "data", status |-> "error", error |-> e] : e \in {Unset, "timeout"}}

\* clearInterval(h) that cancels nothing.
ClearIntervalNothing(ivs, h) == ivs

\* if (pollInterval.current) clearInterval(pollInterval.current)
ClearInterval(ivs, h) == ivs \ {h}

\* data.error || 'Ошибка генерации' with undefined as Unset.
OrDefault(e, d) == IF e \in {Unset, ""} THEN d ELSE e

ClientInit ==
    /\ status = "IDLE"
    /\ progress = 0
    /\ statusMessage = ""
    /\ pdfBlobUrl = Unset
    /\ errorMsg = ""
    /\ pollInterval = 0
    /\ intervals = {}
    /\ handles = 0
    /\ jobOf = [h \in Handles |-> "a"]
    /\ posts = 0
    /\ polls = [h \in Handles |-> 0]
    /\ downloads = [h \in Handles |-> 0]
    /\ issued = [h \in Handles |-> 0]
    /\ mounted = TRUE
    /\ settled = [h |-> 0]

Init ==
    /\ jobs = EmptyMap
    /\ pc = [t \in Tasks |-> "idle"]
    /\ taskId = [t \in Tasks |-> "a"]
    /\ browser = [t \in Tasks |-> "none"]
    /\ started = 0
    /\ timers = <<>>
    /\ apiKey \in BOOLEAN
    /\ resp = NoResp
    /\ generated = [t \in Tasks |-> NoResp]
    /\ ClientInit

\* ----------------------------------------------------------- HTTP handlers
\* A handler that answers 500 for a job whose record it stored.
GenerateResponseFailed(jobId) == [code |-> 500, error |-> "Failed to start generation"]

\* res.json({ jobId })
GenerateResponse(jobId) == [code |-> 200, jobId |-> jobId]

\* POST /api/generate: store the record, start generateProjectBackground
\* (which runs up to its first await) and answer with the jobId.
PostGenerate(jobId, now) ==
    /\ ~MicrotaskPending
    /\ started < MaxTasks
    /\ started' = started + 1
    /\ jobs' = MapSet(jobs, jobId, NewJob(jobId, now))
    /\ pc' = [pc EXCEPT ![started + 1] = "delay"]
    /\ taskId' = [taskId EXCEPT ![started + 1] = jobId]
    /\ generated' = [generated EXCEPT ![started + 1] = GenerateResponse(jobId)]
    /\ UNCHANGED <<browser, timers, apiKey, resp, client>>

\* A status handler that lacks the test for an unknown id.
StatusResponseNoLookupTest(js, id) ==
    IF id \notin DOMAIN js
    THEN [op |-> "status", id |-> id, code |-> 200,
          status |-> "processing", progress |-> 0,
          message |-> MsgInit, error |-> Unset]
    ELSE [op |-> "status", id |-> id, code |-> 200,
          status |-> js[id].status, progress |-> js[id].progress,
          message |-> js[id].message, error |-> js[id].error]

\* The body GET /api/status/:id answers with.
StatusResponse(js, id) ==
    IF id \notin DOMAIN js
    THEN [op |-> "status", id |-> id, code |-> 404]
    ELSE [op |-> "status", id |-> id, code |-> 200,
          status |-> js[id].status, progress |-> js[id].progress,
          message |-> js[id].message, error |-> js[id].error]

\* A status handler that stamps the record it reads.
GetStatusTouching(id) ==
    /\ ~MicrotaskPending
    /\ resp' = StatusResponse(jobs, id)
    /\ \E now \in Times :
          jobs' = IF id \in DOMAIN jobs
                  THEN [jobs EXCEPT ![id].lastUpdated = now]
                  ELSE jobs
    /\ UNCHANGED <<pc, taskId, browser, started, timers, apiKey, generated, client>>

GetStatus(id) ==
    /\ ~MicrotaskPending
    /\ resp' = StatusResponse(jobs, id)
    /\ UNCHANGED <<jobs, pc, taskId, browser, started, timers, apiKey, generated, client>>

\* Whether GET /api/download/:id finds an artifact to send.
HasArtifact(js, id) == id \in DOMAIN js /\ js[id].result # Unset

\* A download handler that tests only `!job`.
DownloadResponseNoResultTest(js, id) ==
    IF id \in DOMAIN js
    THEN [op |-> "download", id |-> id, code |-> 200, body |-> js[id].result]
    ELSE [op |-> "download", id |-> id, code |-> 404]

DownloadResponse(js, id) ==
    IF HasArtifact(js, id)
    THEN [op |-> "download", id |-> id, code |-> 200, body |-> js[id].result]
    ELSE [op |-> "download", id |-> id, code |-> 404]

\* A download handler that schedules the deletion before its 404 test.
ScheduleDeleteAlways(js, id, ts) == Append(ts, id)

\* The timers pending after GET /api/download/:id.
ScheduleDelete(js, id, ts) == IF HasArtifact(js, id) THEN Append(ts, id) ELSE ts

GetDownload(id) ==
    /\ ~MicrotaskPending
    /\ HasArtifact(jobs, id) => Len(timers) < MaxTimers
    /\ resp' = DownloadResponse(jobs, id)
    /\ timers' = ScheduleDelete(jobs, id, timers)
    /\ UNCHANGED <<jobs, pc, taskId, browser, started, apiKey, generated, client>>

\* The callback of the oldest deletion timer: jobs.delete(id).
TimerFire ==
    /\ ~MicrotaskPending
    /\ timers # <<>>
    /\ jobs' = MapDelete(jobs, Head(timers))
    /\ timers' = Tail(timers)
    /\ UNCHANGED <<pc, taskId, browser, started, apiKey, resp, generated, client>>

\* ------------------------------------------------- generateProjectBackground
\* A pipeline that lets the browser open when it leaves the try block.
FinallyNoClose(b) == "done"

\* Where the finally block leaves the task: it awaits browser.close() when a
\* browser was launched, and is finished otherwise.
Finally(b) == IF b = "open" THEN "closing" ELSE "done"

\* The task leaves the try block through the catch block.
Fail(t, js, m, now) ==
    /\ jobs' = Catch(js, taskId[t], m, now)
    /\ pc' = [pc EXCEPT ![t] = Finally(browser[t])]

\* A continuation that yields to the event loop between checkpoint 5 and
\* checkpoint 10.
AfterDelayYielding(t, now) ==
    /\ ~MicrotaskPending
    /\ \/ /\ pc[t] = "delay"
          /\ jobs' = Checkpoint(jobs, taskId[t], 5, Msg5, now)
          /\ pc' = [pc EXCEPT ![t] = "prompt"]
       \/ /\ pc[t] = "prompt"
          /\ IF apiKey
             THEN /\ jobs' = Checkpoint(jobs, taskId[t], 10, Msg10, now)
                  /\ pc' = [pc EXCEPT ![t] = "generation"]
             ELSE Fail(t, Checkpoint(jobs, taskId[t], 10, Msg10, now), KeyMissing, now)
    /\ UNCHANGED <<taskId, browser, started, timers, apiKey, resp, generated, client>>

\* After the 500 ms pacing delay: checkpoints 5 and 10, the API key test and
\* the start of the generation request.
AfterDelay(t, now) ==
    LET id == taskId[t]
        j5 == Checkpoint(jobs, id, 5, Msg5, now)
        j10 == Checkpoint(j5, id, 10, Msg10, now)
    IN  /\ ~MicrotaskPending
        /\ pc[t] = "delay"
        /\ IF apiKey
           THEN /\ jobs' = j10
                /\ pc' = [pc EXCEPT ![t] = "generation"]
           ELSE Fail(t, j10, KeyMissing, now)
        /\ UNCHANGED <<taskId, browser, started, timers, apiKey, resp, generated, client>>

\* The generation request throws (axios rejects, or choices[0] is missing).
GenerationThrows(t, m, now) ==
    /\ ~MicrotaskPending
    /\ pc[t] = "generation"
    /\ Fail(t, jobs, m, now)
    /\ UNCHANGED <<taskId, browser, started, timers, apiKey, resp, generated, client>>

\* The generation request returns content c: checkpoint 45, the test of the
\* content, checkpoint 55 and the markdown transform.
GenerationReturns(t, c, parseOk, now) ==
    LET id == taskId[t]
        j45 == Checkpoint(jobs, id, 45, Msg45, now)
        j55 == Checkpoint(j45, id, 55, Msg55, now)
    IN  /\ ~MicrotaskPending
        /\ pc[t] = "generation"
        /\ IF c = ""
           THEN Fail(t, j45, EmptyResponse, now)
           ELSE IF parseOk
           THEN /\ jobs' = j55
                /\ pc' = [pc EXCEPT ![t] = "parsed"]
           ELSE \E m \in Thrown : Fail(t, j55, m, now)
        /\ UNCHANGED <<taskId, browser, started, timers, apiKey, resp, generated, client>>

\* The continuation after `await marked.parse(...)`: the document is
\* assembled, checkpoint 70, and the browser launch is started.
AfterParse(t, now) ==
    /\ pc[t] = "parsed"
    /\ jobs' = Checkpoint(jobs, taskId[t], 70, Msg70, now)
    /\ pc' = [pc EXCEPT ![t] = "launch"]
    /\ UNCHANGED <<taskId, browser, started, timers, apiKey, resp, generated, client>>

\* puppeteer.launch rejects: no browser was assigned.
LaunchThrows(t, m, now) ==
    /\ ~MicrotaskPending
    /\ pc[t] = "launch"
    /\ Fail(t, jobs, m, now)
    /\ UNCHANGED <<taskId, browser, started, timers, apiKey, resp, generated, client>>

\* puppeteer.launch resolves: browser is assigned, newPage is started.
LaunchReturns(t) ==
    /\ ~MicrotaskPending
    /\ pc[t] = "launch"
    /\ browser' = [browser EXCEPT ![t] = "open"]
    /\ pc' = [pc EXCEPT ![t] = "newPage"]
    /\ UNCHANGED <<jobs, taskId, started, timers, apiKey, resp, generated, client>>

\* A rendering step (newPage, setContent, pdf) rejects.
RenderThrows(t, stage, m, now) ==
    /\ ~MicrotaskPending
    /\ pc[t] = stage
    /\ Fail(t, jobs, m, now)
    /\ UNCHANGED <<taskId, browser, started, timers, apiKey, resp, generated, client>>

\* browser.newPage resolves: checkpoint 80, setContent is started.
NewPageReturns(t, now) ==
    /\ ~MicrotaskPending
    /\ pc[t] = "newPage"
    /\ jobs' = Checkpoint(jobs, taskId[t], 80, Msg80, now)
    /\ pc' = [pc EXCEPT ![t] = "setContent"]
    /\ UNCHANGED <<taskId, browser, started, timers, apiKey, resp, generated, client>>

\* page.setContent resolves: checkpoint 90, page.pdf is started.
SetContentReturns(t, now) ==
    /\ ~MicrotaskPending
    /\ pc[t] = "setContent"
    /\ jobs' = Checkpoint(jobs, taskId[t], 90, Msg90, now)
    /\ pc' = [pc EXCEPT ![t] = "pdf"]
    /\ UNCHANGED <<taskId, browser, started, timers, apiKey, resp, generated, client>>

\* The update that ends a successful pipeline.
Complete(js, id, now) ==
    updateJob(js, id, [progress |-> 100, status |-> "completed",
                       message |-> MsgDone, result |-> Artifact], now)

\* page.pdf resolves: the terminal update, then the finally block.
PdfReturns(t, now) ==
    /\ ~MicrotaskPending
    /\ pc[t] = "pdf"
    /\ jobs' = Complete(jobs, taskId[t], now)
    /\ pc' = [pc EXCEPT ![t] = Finally(browser[t])]
    /\ UNCHANGED <<taskId, browser, started, timers, apiKey, resp, generated, client>>

\* A pipeline whose catch block also receives the rejection of browser.close().
CloseSettlesCaught(t, ok) ==
    /\ ~MicrotaskPending
    /\ pc[t] = "closing"
    /\ browser' = [browser EXCEPT ![t] = IF ok THEN "closed" ELSE "closeFailed"]
    /\ pc' = [pc EXCEPT ![t] = "done"]
    /\ IF ok THEN jobs' = jobs
             ELSE \E m \in Thrown, now \in Times : jobs' = Catch(jobs, taskId[t], m, now)
    /\ UNCHANGED <<taskId, started, timers, apiKey, resp, generated, client>>

\* browser.close() settles (ok: it resolved; otherwise it rejected and the
\* rejection leaves the async function).
CloseSettles(t, ok) ==
    /\ ~MicrotaskPending
    /\ pc[t] = "closing"
    /\ browser' = [browser EXCEPT ![t] = IF ok THEN "closed" ELSE "closeFailed"]
    /\ pc' = [pc EXCEPT ![t] = "done"]
    /\ UNCHANGED <<jobs, taskId, started, timers, apiKey, resp, generated, client>>

Pipeline(t, now) ==
    \/ AfterDelay(t, now)
    \/ \E m \in Thrown : GenerationThrows(t, m, now)
    \/ \E c \in Contents, parseOk \in BOOLEAN : GenerationReturns(t, c, parseOk, now)
    \/ AfterParse(t, now)
    \/ \E m \in Thrown : LaunchThrows(t, m, now)
    \/ LaunchReturns(t)
    \/ \E m \in Thrown : RenderThrows(t, "newPage", m, now)
    \/ \E m \in Thrown : RenderThrows(t, "setContent", m, now)
    \/ \E m \in Thrown : RenderThrows(t, "pdf", m, now)
    \/ NewPageReturns(t, now)
    \/ SetContentReturns(t, now)
    \/ PdfReturns(t, now)
    \/ \E ok \in BOOLEAN : CloseSettles(t, ok)

Next ==
    \/ \E id \in Ids, now \in Times : PostGenerate(id, now)
    \/ \E id \in Ids : GetStatus(id)
    \/ \E id \in Ids : GetDownload(id)
    \/ TimerFire
    \/ \E t \in Tasks, now \in Times : Pipeline(t, now)

Spec == Init /\ [][Next]_vars

\* ---------------------------------------------------------- client actions
\* handleSubmit up to its await of the POST fetch; the form is rendered only
\* while status is IDLE.
handleSubmit ==
    /\ mounted /\ status = "IDLE"
    /\ handles + posts < MaxSubmits
    /\ status' = "GENERATING_TEXT"
    /\ progress' = 0
    /\ statusMessage' = ClientMsgInit
    /\ errorMsg' = ""
    /\ posts' = posts + 1
    /\ UNCHANGED <<pdfBlobUrl, pollInterval, intervals, handles, jobOf, polls,
                   downloads, issued, mounted, settled, server>>

\* The POST answered with a jobId: startPolling(jobId).
startPolling(jobId) ==
    /\ posts > 0
    /\ posts' = posts - 1
    /\ handles' = handles + 1
    /\ pollInterval' = handles + 1
    /\ intervals' = ClearInterval(intervals, pollInterval) \cup {handles + 1}
    /\ jobOf' = [jobOf EXCEPT ![handles + 1] = jobId]
    /\ UNCHANGED <<status, progress, statusMessage, pdfBlobUrl, errorMsg, polls,
                   downloads, issued, mounted, settled, server>>

\* The POST failed (rejected, not ok, or unparsable): the catch of handleSubmit.
SubmitFails(m) ==
    /\ posts > 0
    /\ posts' = posts - 1
    /\ status' = "ERROR"
    /\ errorMsg' = OrDefault(m, SubmitErrorDefault)
    /\ UNCHANGED <<progress, statusMessage, pdfBlobUrl, pollInterval, intervals,
                   handles, jobOf, polls, downloads, issued, mounted, settled, server>>

\* The callback of interval h up to its await of the status fetch.
IntervalTick(h) ==
    /\ h \in intervals
    /\ polls[h] < MaxPolls
    /\ polls' = [polls EXCEPT ![h] = @ + 1]
    /\ UNCHANGED <<status, progress, statusMessage, pdfBlobUrl, errorMsg,
                   pollInterval, intervals, handles, jobOf, posts, downloads,
                   issued, mounted, settled, server>>

\* A callback that gives up polling when a status fetch brings no job body.
StatusIgnoredStops(h, reply) ==
    /\ polls[h] > 0 /\ reply.kind # "data"
    /\ polls' = [polls EXCEPT ![h] = @ - 1]
    /\ settled' = [h |-> h, reply |-> reply]
    /\ intervals' = ClearInterval(intervals, pollInterval)
    /\ UNCHANGED <<status, progress, statusMessage, pdfBlobUrl, errorMsg,
                   pollInterval, handles, jobOf, posts, downloads,
                   issued, mounted, server>>

\* A status fetch of interval h settles without a job body: the callback
\* returns and the next tick retries.
StatusIgnored(h, reply) ==
    /\ polls[h] > 0 /\ reply.kind # "data"
    /\ polls' = [polls EXCEPT ![h] = @ - 1]
    /\ settled' = [h |-> h, reply |-> reply]
    /\ UNCHANGED <<status, progress, statusMessage, pdfBlobUrl, errorMsg,
                   pollInterval, intervals, handles, jobOf, posts, downloads,
                   issued, mounted, server>>

StatusProcessing(h, reply) ==
    /\ polls[h] > 0 /\ reply.kind = "data" /\ reply.status = "processing"
    /\ polls' = [polls EXCEPT ![h] = @ - 1]
    /\ settled' = [h |-> h, reply |-> reply]
    /\ progress' = reply.progress
    /\ statusMessage' = reply.message
    /\ UNCHANGED <<status, pdfBlobUrl, errorMsg, pollInterval, intervals,
                   handles, jobOf, posts, downloads, issued, mounted, server>>

\* The completed branch, with downloadResult(jobId) up to its await of the
\* download fetch.
StatusCompleted(h, reply) ==
    /\ polls[h] > 0 /\ reply.kind = "data" /\ reply.status = "completed"
    /\ polls' = [polls EXCEPT ![h] = @ - 1]
    /\ settled' = [h |-> h, reply |-> reply]
    /\ intervals' = ClearInterval(intervals, pollInterval)
    /\ progress' = 100
    /\ statusMessage' = MsgDownloading
    /\ downloads' = [downloads EXCEPT ![h] = @ + 1]
    /\ issued' = [issued EXCEPT ![h] = @ + 1]
    /\ UNCHANGED <<status, pdfBlobUrl, errorMsg, pollInterval, handles, jobOf,
                   posts, mounted, server>>

StatusError(h, reply) ==
    /\ polls[h] > 0 /\ reply.kind = "data" /\ reply.status = "error"
    /\ polls' = [polls EXCEPT ![h] = @ - 1]
    /\ settled' = [h |-> h, reply |-> reply]
    /\ intervals' = ClearInterval(intervals, pollInterval)
    /\ errorMsg' = OrDefault(reply.error, PollErrorDefault)
    /\ status' = "ERROR"
    /\ UNCHANGED <<progress, statusMessage, pdfBlobUrl, pollInterval, handles,
                   jobOf, posts, downloads, issued, mounted, server>>

\* The download fetch of downloadResult settles.
DownloadSettles(h, ok) ==
    /\ downloads[h] > 0
    /\ downloads' = [downloads EXCEPT ![h] = @ - 1]
    /\ IF ok
       THEN /\ pdfBlobUrl' = jobOf[h]
            /\ status' = "COMPLETE"
            /\ UNCHANGED errorMsg
       ELSE /\ errorMsg' = DownloadFailed
            /\ status' = "ERROR"
            /\ UNCHANGED pdfBlobUrl
    /\ UNCHANGED <<progress, statusMessage, pollInterval, intervals, handles,
                   jobOf, posts, polls, issued, mounted, settled, server>>

\* resetForm: its buttons are rendered in the ERROR view and in the COMPLETE
\* view that has a pdfBlobUrl.
resetForm ==
    /\ mounted
    /\ status = "ERROR" \/ (status = "COMPLETE" /\ pdfBlobUrl # Unset)
    /\ intervals' = ClearInterval(intervals, pollInterval)
    /\ status' = "IDLE"
    /\ pdfBlobUrl' = Unset
    /\ progress' = 0
    /\ UNCHANGED <<statusMessage, errorMsg, pollInterval, handles, jobOf, posts,
                   polls, downloads, issued, mounted, settled, server>>

\* The cleanup of the effect, run when the component unmounts.
Unmount ==
    /\ mounted
    /\ mounted' = FALSE
    /\ intervals' = ClearInterval(intervals, pollInterval)
    /\ UNCHANGED <<status, progress, statusMessage, pdfBlobUrl, errorMsg,
                   pollInterval, handles, jobOf, posts, polls, downloads,
                   issued, settled, server>>

ClientNext ==
    \/ handleSubmit
    \/ \E jobId \in Ids : startPolling(jobId)
    \/ \E m \in SubmitErrors : SubmitFails(m)
    \/ \E h \in Handles : IntervalTick(h)
    \/ \E h \in Handles, reply \in StatusReplies : StatusIgnored(h, reply)
    \/ \E h \in Handles, reply \in StatusReplies : StatusProcessing(h, reply)
    \/ \E h \in Handles, reply \in StatusReplies : StatusCompleted(h, reply)
    \/ \E h \in Handles, reply \in StatusReplies : StatusError(h, reply)
    \/ \E h \in Handles, ok \in BOOLEAN : DownloadSettles(h, ok)
    \/ resetForm
    \/ Unmount

ClientSpec == Init /\ [][ClientNext]_vars

\* ----------------------------------------------------------------- claims
Terminal == {"completed", "error"}

\* The tasks started with job id `id` that still wait for their pacing delay.
AtFirstStep(id) == \E t \in Tasks : taskId[t] = id /\ pc[t] = "delay"

\* C10: POST /api/generate never replaces or resets a record that is already
\* stored under the generated id (creation under an existing id is a no-op).
C10_CreateKeepsExisting ==
    [][\A id \in Ids, now \in Times :
          (PostGenerate(id, now) /\ id \in DOMAIN jobs) => jobs'[id] = jobs[id]]_vars

\* C1: POST /api/generate leaves the record in processing with progress 0,
\* and every GET /api/status/<id> served before the first step of the
\* pipeline started for <id> answers status=processing, progress=0.
C1_ProcessingZeroUntilFirstStep ==
    [][\A id \in Ids :
          /\ (\E now \in Times : PostGenerate(id, now)) =>
                (jobs'[id].status = "processing" /\ jobs'[id].progress = 0)
          /\ (GetStatus(id) /\ AtFirstStep(id)) =>
                (resp'.code = 200 /\ resp'.status = "processing" /\ resp'.progress = 0)]_vars

\* C2: of two successive status responses for the same id that both report
\* processing, the later one reports a progress that is not smaller.
IsProcessing(r) == r.op = "status" /\ r.code = 200 /\ r.status = "processing"

C2_PollProgressMonotone ==
    [][(IsProcessing(resp) /\ IsProcessing(resp') /\ resp.id = resp'.id)
          => resp'.progress >= resp.progress]_vars

\* C3: once the status of a stored record is completed or error, no step
\* changes that status for as long as the record exists.
C3_TerminalAbsorbing ==
    [][\A id \in DOMAIN jobs \cap DOMAIN jobs' :
          jobs[id].status \in Terminal => jobs'[id].status = jobs[id].status]_vars

\* C4: a processing record has neither result nor error; a completed record
\* has a result, no error and progress 100; an error record has a non-empty
\* error and no result; and a status response shows the same.
WellFormed(st, prog, result, error) ==
    /\ st = "processing" => (result = Unset /\ error = Unset)
    /\ st = "completed" => (result # Unset /\ error = Unset /\ prog = 100)
    /\ st = "error" => (error \notin {Unset, ""} /\ result = Unset)

C4_RecordWellFormed ==
    /\ \A id \in DOMAIN jobs :
          WellFormed(jobs[id].status, jobs[id].progress, jobs[id].result, jobs[id].error)
    /\ (resp.op = "status" /\ resp.code = 200) =>
          /\ resp.status = "processing" => resp.error = Unset
          /\ resp.status = "completed" => (resp.error = Unset /\ resp.progress = 100)
          /\ resp.status = "error" => resp.error \notin {Unset, ""}

\* C5: a download of a job whose status is error answers 404.
C5_NoArtifactAfterError ==
    [][\A id \in DOMAIN jobs :
          (jobs[id].status = "error" /\ GetDownload(id)) => resp'.code = 404]_vars

\* C6: when the generation call of a pipeline fails (it throws, or its
\* content is empty), the job is in error after that turn, it has no result
\* and is not completed, and the pipeline holds no rendering session.
GenerationFails(t) ==
    \E now \in Times :
        \/ \E m \in Thrown : GenerationThrows(t, m, now)
        \/ \E parseOk \in BOOLEAN : GenerationReturns(t, "", parseOk, now)

C6_GenerationFailureGivesError ==
    [][\A t \in Tasks :
          GenerationFails(t) =>
            /\ taskId[t] \in DOMAIN jobs'
            /\ jobs'[taskId[t]].status = "error"
            /\ jobs'[taskId[t]].result = Unset
            /\ browser'[t] = "none"
            /\ pc'[t] = "done"]_vars

\* C7: a pipeline leaves its try block (through the terminal update or the
\* catch block) with its job in status completed or error.
InTry(p) == p \in {"delay", "generation", "parsed", "launch", "newPage", "setContent", "pdf"}

C7_PipelineEndsJobTerminal ==
    [][\A t \in Tasks :
          (InTry(pc[t]) /\ ~InTry(pc'[t])) =>
            (taskId[t] \in DOMAIN jobs' /\ jobs'[taskId[t]].status \in Terminal)]_vars

\* C8 (as stated): between a successful download and the removal of the
\* record, the artifact is not served a second time.
DeletionPending(id) == \E i \in 1..Len(timers) : timers[i] = id

C8_ServedOncePerWindow ==
    [][\A id \in Ids :
          (GetDownload(id) /\ DeletionPending(id)) => resp'.code = 404]_vars

\* C8 (amended): a download made while the record is stored with its result
\* is served the artifact and schedules a deletion, also inside a pending
\* deletion window; the firing of a deletion timer removes the record of
\* its id; and a download of an id that is not stored answers 404.
C8_ServedWhileStored ==
    [][/\ \A id \in Ids :
             GetDownload(id) =>
               IF id \in DOMAIN jobs /\ jobs[id].result # Unset
               THEN /\ resp' = [op |-> "download", id |-> id, code |-> 200,
                                body |-> jobs[id].result]
                    /\ timers' = Append(timers, id)
               ELSE resp'.code = 404 /\ timers' = timers
       /\ TimerFire => Head(timers) \notin DOMAIN jobs']_vars

\* A download answered 404 for a job whose artifact was served twice in one
\* window: the timer of the first download removed the record, the timer of
\* the second one is still pending.
C8_Witness ==
    /\ resp.op = "download" /\ resp.code = 404
    /\ resp.id \notin DOMAIN jobs
    /\ DeletionPending(resp.id)

\* C9: GET /api/status/<id> for an id that is not in the registry answers 404.
C9_UnknownIdNotFound ==
    [][\A id \in Ids : (GetStatus(id) /\ id \notin DOMAIN jobs) => resp' = [op |-> "status", id |-> id, code |-> 404]]_vars

\* A 404 status response for an id that was issued and has been deleted.
C9_Witness ==
    /\ resp.op = "status" /\ resp.code = 404
    /\ resp.id \notin DOMAIN jobs
    /\ \E t \in Tasks : taskId[t] = resp.id /\ pc[t] = "done"

\* The task that started last with job id `id`: its POST stored the record
\* that is now under `id`.
Owner(id) ==
    LET ts == {t \in Tasks : pc[t] # "idle" /\ taskId[t] = id}
    IN  CHOOSE t \in ts : \A u \in ts : u <= t

\* Task t takes a step of its pipeline.
PipelineStep(t) == pc[t] # "idle" /\ pc'[t] # pc[t]

\* C11: only one pipeline task writes to a record: every pipeline step that
\* changes the record stored under an id is a step of the task whose POST
\* stored that record.
C11_SingleWriter ==
    [][\A t \in Tasks :
          (/\ PipelineStep(t)
           /\ taskId[t] \in DOMAIN jobs
           /\ jobs'[taskId[t]] # jobs[taskId[t]]) => t = Owner(taskId[t])]_vars

\* C13: after the error update of a job no pipeline step changes the
\* progress of its record.
C13_ProgressFrozenAfterError ==
    [][\A id \in DOMAIN jobs \cap DOMAIN jobs' :
          (jobs[id].status = "error" /\ started' = started)
            => jobs'[id].progress = jobs[id].progress]_vars

\* C14: a record leaves the registry only in the callback of a deletion
\* timer, and only when it is completed and its artifact was downloaded: a
\* processing or error record is never removed.
C14_OnlyDownloadedRecordsRemoved ==
    [][\A id \in DOMAIN jobs :
          id \notin DOMAIN jobs' =>
            (TimerFire /\ Head(timers) = id /\ jobs[id].status = "completed")]_vars

\* Every collaborator call of a started pipeline eventually returns or
\* throws, and the continuation of the pipeline then runs.
FairSpec == Spec /\ \A t \in Tasks : WF_vars(\E now \in Times : Pipeline(t, now))

\* C12: a pipeline that acquired a rendering session eventually performs the
\* release (browser.close() is called and settles) on the success path and
\* on every failure path, and a pipeline performs the release only for a
\* session it acquired.
C12_SessionReleased ==
    /\ [](\A t \in Tasks : pc[t] = "closing" => browser[t] = "open")
    /\ [](\A t \in Tasks : browser[t] \in {"closed", "closeFailed"} <=> (pc[t] = "done" /\ browser[t] # "none"))
    /\ []<>(\A t \in Tasks : browser[t] # "open")

\* A pipeline that failed after it acquired its session and released it.
C12_Witness ==
    \E t \in Tasks :
        /\ pc[t] = "done" /\ browser[t] = "closed"
        /\ taskId[t] \in DOMAIN jobs /\ jobs[taskId[t]].status = "error"

\* C15: GET /api/download/<id> for an id that is unknown or whose record has
\* no result answers 404, schedules no deletion and leaves the registry as
\* it is.
C15_DownloadNotReady ==
    [][\A id \in Ids :
          (GetDownload(id) /\ (id \notin DOMAIN jobs \/ jobs[id].result = Unset)) =>
            /\ resp' = [op |-> "download", id |-> id, code |-> 404]
            /\ timers' = timers
            /\ jobs' = jobs]_vars

\* A 404 download response for a stored job that is still processing, with
\* no deletion scheduled.
C15_Witness ==
    /\ resp.op = "download" /\ resp.code = 404
    /\ resp.id \in DOMAIN jobs
    /\ jobs[resp.id].status = "processing" /\ jobs[resp.id].progress > 0
    /\ timers = <<>>

\* C17: GET /api/status/<id> is a pure read: it changes no record (its
\* lastUpdated included), adds or removes none and schedules no timer, so
\* the same request served again right after it has the same response.
C17_StatusPureRead ==
    [][\A id \in Ids :
          GetStatus(id) =>
            /\ jobs' = jobs /\ timers' = timers
            /\ pc' = pc /\ browser' = browser /\ started' = started
            /\ resp' = StatusResponse(jobs', id)]_vars

\* A status response that shows a stored job in the middle of its pipeline.
C17_Witness ==
    /\ resp.op = "status" /\ resp.code = 200
    /\ resp.id \in DOMAIN jobs
    /\ resp = StatusResponse(jobs, resp.id)
    /\ resp.status = "processing" /\ resp.progress = 70

\* The updates generateProjectBackground passes to updateJob.
UpdatesIssued ==
    {[progress |-> 5, message |-> Msg5], [progress |-> 10, message |-> Msg10],
     [progress |-> 45, message |-> Msg45], [progress |-> 55, message |-> Msg55],
     [progress |-> 70, message |-> Msg70], [progress |-> 80, message |-> Msg80],
     [progress |-> 90, message |-> Msg90],
     [progress |-> 100, status |-> "completed", message |-> MsgDone, result |-> Artifact]}
    \cup {[status |-> "error", error |-> ErrorMessage(m), message |-> MsgError] :
            m \in Thrown \cup {KeyMissing, EmptyResponse}}

\* updateJob(id, u) changes the fields of u and lastUpdated in the record of
\* a stored id and nothing else; for an id that is not stored it changes
\* nothing.
UpdateFrame(js, id, u, now) ==
    LET js2 == updateJob(js, id, u, now)
    IN  IF id \notin DOMAIN js THEN js2 = js
        ELSE /\ DOMAIN js2 = DOMAIN js
             /\ \A k \in DOMAIN js \ {id} : js2[k] = js[k]
             /\ DOMAIN js2[id] = DOMAIN js[id]
             /\ js2[id].lastUpdated = now
             /\ \A f \in DOMAIN u : js2[id][f] = u[f]
             /\ \A f \in DOMAIN js[id] \ (DOMAIN u \cup {"lastUpdated"}) : js2[id][f] = js[id][f]

\* Task t takes a step that consists of the catch block alone.
CatchStep(t) ==
    \E now \in Times, m \in Thrown :
        \/ GenerationThrows(t, m, now)
        \/ LaunchThrows(t, m, now)
        \/ \E stage \in {"newPage", "setContent", "pdf"} : RenderThrows(t, stage, m, now)

\* C18: updateJob changes exactly the given fields plus lastUpdated of a
\* stored record and changes nothing for an unknown id; the error update of
\* a pipeline leaves progress (and id, result) of its record at the values
\* they held, and creates no record when the id is not stored.
C18_UpdateJobFrame ==
    /\ [](\A id \in Ids, now \in Times, u \in UpdatesIssued : UpdateFrame(jobs, id, u, now))
    /\ [][\A t \in Tasks :
            CatchStep(t) =>
              IF taskId[t] \notin DOMAIN jobs THEN jobs' = jobs
              ELSE /\ DOMAIN jobs' = DOMAIN jobs
                   /\ \A k \in DOMAIN jobs \ {taskId[t]} : jobs'[k] = jobs[k]
                   /\ jobs'[taskId[t]].progress = jobs[taskId[t]].progress
                   /\ jobs'[taskId[t]].result = jobs[taskId[t]].result
                   /\ jobs'[taskId[t]].id = jobs[taskId[t]].id
                   /\ jobs'[taskId[t]].status = "error"
                   /\ \E now \in Times : jobs'[taskId[t]].lastUpdated = now]_vars

\* A record whose pipeline failed at the rendering of the page: the error
\* update left its progress at 80 and stamped it with the later clock value.
C18_Witness ==
    \E id \in DOMAIN jobs :
        /\ jobs[id].status = "error" /\ jobs[id].progress = 80
        /\ jobs[id].result = Unset /\ jobs[id].lastUpdated = 1

\* C16: the response of the POST that started a task is the 200 answer with
\* its jobId and no later step changes it, in particular not the catch of a
\* failing pipeline, which only writes the job record; a status request
\* for a record in error answers status "error" with the record's error text.
C16_FailureOnlyInStatus ==
    [][/\ \A t \in Tasks :
            /\ (pc[t] = "idle" /\ pc'[t] # "idle")
                  => generated'[t] = GenerateResponse(taskId'[t])
            /\ pc[t] # "idle"
                  => (generated'[t] = generated[t] /\ generated'[t].code = 200
                      /\ generated'[t].jobId = taskId[t])
            /\ CatchStep(t) => (generated' = generated /\ resp' = resp)
       /\ \A id \in DOMAIN jobs :
            (GetStatus(id) /\ jobs[id].status = "error")
                => (resp'.code = 200 /\ resp'.status = "error"
                    /\ resp'.error = jobs[id].error /\ resp'.error \notin {Unset, ""})]_vars

C16_Witness ==
    \E t \in Tasks :
        /\ pc[t] = "done" /\ taskId[t] \in DOMAIN jobs
        /\ jobs[taskId[t]].status = "error"
        /\ generated[t] = [code |-> 200, jobId |-> taskId[t]]
        /\ resp.op = "status" /\ resp.id = taskId[t] /\ resp.code = 200
        /\ resp.status = "error" /\ resp.error = "timeout"

\* C19: for each submission that started polling, the client sends at most
\* one GET /api/download/<jobId>, whatever the timing of the status
\* responses, and only after a status response said completed.
C19_DownloadOnce == \A h \in Handles : issued[h] <= 1

\* C20: the handler of a status response that says error leaves no interval
\* polling that job, shows ERROR and the error text of the response, or the
\* default text when the response has none; and an interval that was
\* cancelled never starts another poll.
C20_ErrorStopsPolling ==
    [][\A h \in Handles :
          /\ \A reply \in StatusReplies :
                StatusError(h, reply)
                   => /\ h \notin intervals'
                      /\ \A g \in intervals' : jobOf'[g] # jobOf[h]
                      /\ status' = "ERROR"
                      /\ errorMsg' = IF reply.error \in {Unset, ""}
                                     THEN PollErrorDefault ELSE reply.error
          /\ (h <= handles /\ h \notin intervals)
                => (h \notin intervals' /\ polls'[h] <= polls[h])]_vars

C20_Witness ==
    /\ status = "ERROR" /\ errorMsg = PollErrorDefault
    /\ pollInterval = 1 /\ intervals = {}
    /\ polls[1] > 0 /\ mounted

\* The progress of the checkpoints of generateProjectBackground, in order
\* (0 is the progress the record is created with).
Checkpoints == <<0, 5, 10, 45, 55, 70, 80, 90, 100>>

\* C21: a step other than a POST that changes the progress of a record raises
\* it to a later checkpoint of the fixed sequence; a record becomes completed
\* only from progress 90, the last checkpoint before the end, and progress
\* 100 is written together with status completed and the result.
C21_CheckpointSequence ==
    [][\A id \in DOMAIN jobs \cap DOMAIN jobs' :
          started' = started =>
             /\ jobs'[id].progress # jobs[id].progress
                   => /\ jobs'[id].progress > jobs[id].progress
                      /\ \E i \in DOMAIN Checkpoints : Checkpoints[i] = jobs'[id].progress
             /\ (jobs'[id].status = "completed" /\ jobs[id].status # "completed")
                   => (jobs[id].progress = 90 /\ jobs'[id].progress = 100
                       /\ jobs'[id].result = Artifact)
             /\ (jobs'[id].progress = 100 /\ jobs[id].progress # 100)
                   => (jobs'[id].status = "completed" /\ jobs'[id].result = Artifact)]_vars

\* C22: between two turns of the event loop no record is processing with
\* progress 5 or 45, so no status response reports processing together with
\* one of them (45 is seen only on the record that the empty-content error
\* ended).
C22_NoTransientCheckpoint ==
    /\ \A id \in DOMAIN jobs :
          jobs[id].status = "processing" => jobs[id].progress \notin {5, 45}
    /\ (resp.op = "status" /\ resp.code = 200 /\ resp.status = "processing")
          => resp.progress \notin {5, 45}

C22_Witness ==
    /\ resp.op = "status" /\ resp.code = 200
    /\ resp.status = "error" /\ resp.progress = 45 /\ resp.error = EmptyResponse
    /\ \E t \in Tasks : pc[t] = "parsed" /\ jobs[taskId[t]].progress = 55

\* C23: a download that finds an artifact serves it and appends its own timer
\* without touching the record or the timers already pending; a timer that
\* fires removes nothing but the record of its id, and the record it removes
\* is one whose artifact was produced and served (a timer left over from a
\* record that is already removed finds no record to remove).
C23_FirstTimerRemoves ==
    [][/\ \A id \in Ids :
            (GetDownload(id) /\ HasArtifact(jobs, id))
               => /\ timers' = Append(timers, id)
                  /\ jobs' = jobs
                  /\ resp'.code = 200 /\ resp'.body = jobs[id].result
       /\ TimerFire
            => /\ timers' = Tail(timers)
               /\ Head(timers) \notin DOMAIN jobs'
               /\ \A id \in DOMAIN jobs \ {Head(timers)} :
                     id \in DOMAIN jobs' /\ jobs'[id] = jobs[id]
               /\ Head(timers) \in DOMAIN jobs
                     => jobs[Head(timers)].result # Unset]_vars

\* C24: a step of the pipeline started with id A leaves the record of every
\* other id as it is, and so does a download of A; the timer of A removes no
\* record but the one stored under A.
C24_OtherRecordsUntouched ==
    [][/\ \A t \in Tasks :
            PipelineStep(t)
               => \A id \in DOMAIN jobs \ {taskId[t]} :
                     id \in DOMAIN jobs' /\ jobs'[id] = jobs[id]
       /\ \A a \in Ids :
            (GetDownload(a) \/ (TimerFire /\ Head(timers) = a))
               => \A id \in DOMAIN jobs \ {a} : id \in DOMAIN jobs']_vars

C24_Witness ==
    /\ pc[1] = "pdf" /\ pc[2] = "generation" /\ taskId[1] # taskId[2]
    /\ DOMAIN jobs = {taskId[1], taskId[2]}
    /\ jobs[taskId[1]].progress = 90 /\ jobs[taskId[2]].progress = 10
    /\ jobs[taskId[1]].lastUpdated # jobs[taskId[2]].lastUpdated

\* C25: the step in which a task starts to close its browser is the step
\* that wrote the terminal update of its job; the browser leaves the open
\* state only by that close; and the step in which the close settles,
\* resolved or rejected, leaves the registry as it is.
C25_ReleaseAfterTerminalUpdate ==
    [][\A t \in Tasks :
          /\ (pc[t] # "closing" /\ pc'[t] = "closing" /\ taskId[t] \in DOMAIN jobs')
                => /\ jobs'[taskId[t]].status \in Terminal
                   /\ jobs'[taskId[t]].status = "completed"
                         => jobs'[taskId[t]].result = Artifact
                   /\ jobs'[taskId[t]].status = "error"
                         => jobs'[taskId[t]].error \notin {Unset, ""}
          /\ (browser[t] = "open" /\ browser'[t] # "open") => pc[t] = "closing"
          /\ (pc[t] = "closing" /\ pc'[t] # "closing") => jobs' = jobs]_vars

C25_Witness ==
    /\ browser[1] = "closeFailed" /\ browser[2] = "closeFailed"
    /\ taskId[1] # taskId[2] /\ DOMAIN jobs = {taskId[1], taskId[2]}
    /\ jobs[taskId[1]].status = "completed" /\ jobs[taskId[1]].result = Artifact
    /\ jobs[taskId[2]].status = "error" /\ jobs[taskId[2]].error = "timeout"

\* C26: a status fetch that rejects, is not ok or has no parsable body
\* changes nothing the client shows and cancels no interval; an interval
\* stops being live only in the completed or error branch, in resetForm, in
\* startPolling or in the unmount cleanup.
C26_BadResponseIgnored ==
    [][/\ \A h \in Handles, reply \in StatusReplies :
            StatusIgnored(h, reply)
               => UNCHANGED <<status, progress, statusMessage, pdfBlobUrl, errorMsg,
                              pollInterval, intervals, downloads, issued>>
       /\ (\E h \in intervals : h \notin intervals')
            => \/ \E g \in Handles, reply \in StatusReplies :
                     StatusCompleted(g, reply) \/ StatusError(g, reply)
               \/ resetForm
               \/ \E jobId \in Ids : startPolling(jobId)
               \/ Unmount]_vars

C26_Witness ==
    /\ settled.h = 1 /\ settled.reply.kind \in {"notOk", "badJson"}
    /\ intervals = {1} /\ pollInterval = 1
    /\ status = "GENERATING_TEXT" /\ progress = 70 /\ statusMessage = Msg70

\* C27: once a later submission has started polling, a status fetch of an
\* earlier interval that settles cancels no interval, sends no download
\* request and leaves the status shown as it is.
C27_StaleResponseNoEffect ==
    [][\A h \in Handles :
          (h < pollInterval /\ polls'[h] < polls[h])
             => (intervals' = intervals /\ issued' = issued /\ status' = status)]_vars

====
